---- MODULE Spec2Model ----
(***************************************************************************)
(* Verification model of the Advent-of-Code 2016 solutions.  Every day is  *)
(* an independent program: each has its own variables, its own initial     *)
(* predicate and its own specification (SpecDayNN).  While one day runs,   *)
(* the variables of the other days stay at their idle value.               *)
(***************************************************************************)
EXTENDS Integers, Sequences, FiniteSets, TLC

VARIABLES
    \* day_23.rs: part_1 and its Machine
    program23,      \* the instructions handed to part_1
    machine,        \* struct Machine {instructions, ip, registers, stopped}
    pc23,           \* position inside part_1: "run" | "done"
    result23        \* value returned by part_1

vars23 == <<program23, machine, pc23, result23>>

VARIABLES
    \* day_14.rs: PasswordGenerator over a stream of hashes
    stream14,       \* the hashes HashGenerator has produced so far, by position
    generator,      \* struct PasswordGenerator {slow, fast, queue, verifications, index}
    yielded14       \* the items next() has returned so far, in order

vars14 == <<stream14, generator, yielded14>>

VARIABLES
    \* day_20.rs: part_1
    blocked20,      \* the ranges handed to part_1
    pending20,      \* the sorted ranges the for loop has not visited yet
    open20,         \* BinaryHeap<u32> of the ends (+1) of the ranges still open
    last_close,     \* the largest end (+1) popped from the heap so far
    pc20,           \* position inside part_1: "loop" | "done"
    result20        \* value returned by part_1

vars20 == <<blocked20, pending20, open20, last_close, pc20, result20>>

VARIABLES
    \* day_11.rs: solve
    facility,       \* struct Facility: the parsed input of part_1
    queue11,        \* VecDeque<State> of solve
    visited11,      \* HashSet<State> of solve (State hashes and compares by bits)
    pc11,           \* position inside solve: "loop" | "done"
    result11        \* value returned by solve

vars11 == <<facility, queue11, visited11, pc11, result11>>

VARIABLES
    \* day_21.rs: scamble followed by unscamble
    original21,     \* the password before scamble
    instructions21, \* the instruction list handed to scamble and unscamble
    password21,     \* the byte buffer both functions work on in place
    done21,         \* number of instructions the running loop has handled
    pc21            \* "scamble" | "unscamble" | "done"

vars21 == <<original21, instructions21, password21, done21, pc21>>

VARIABLES
    \* day_15.rs: Sculpture::find_alignment_time
    sculpture,      \* struct Sculpture {discs}
    time15,         \* local `time`
    time_step,      \* local `time_step`
    disc_ix,        \* number of discs the for loop has finished
    pc15,           \* "loop" | "done"
    result15        \* value returned by find_alignment_time

vars15 == <<sculpture, time15, time_step, disc_ix, pc15, result15>>

VARIABLES
    \* utils.rs: Grid::shortest_path
    grid,           \* struct Grid<T> {data, rows, cols}, self
    source,         \* argument (row, col)
    target,         \* argument (row, col)
    visited,        \* Grid<bool> of the positions popped so far
    pending,        \* VecDeque of positions
    dist,           \* local `dist`
    level_left,     \* turns left of `for _ in 0..pending.len()`
    pcG,            \* "while" | "for" | "done"
    resultG         \* returned Option<usize>: <<d>> for Some(d), <<>> for None

varsG == <<grid, source, target, visited, pending, dist, level_left, pcG, resultG>>

VARIABLES
    \* utils.rs: permute
    originalP,      \* the slice as it was handed to permute
    itemsP,         \* `items`, swapped in place
    stackP,         \* the calls of `inner` in progress, innermost last
    callsP,         \* the slices `callback` has been called with, in order
    pcP             \* "run" | "done"

varsP == <<originalP, itemsP, stackP, callsP, pcP>>

VARIABLES
    \* day_10.rs: Factory::new followed by Factory::simulate
    instructions10, \* the instruction list handed to Factory::new
    next_instr10,   \* 1-based position of `for &instr in instructions` in new
    bot_inventory,  \* Vec<TwoHeap<u32>>
    bots,           \* Vec<Option<Bot>>: <<>> for None, <<bot>> for Some(bot)
    outputs,        \* Vec<TwoHeap<u32>>
    events,         \* VecDeque<usize>
    received10,     \* history: the chips pushed onto each bot, in order
    delivered10,    \* history: the chips pushed onto each output, in order
    sent10,         \* history: the send_value calls of simulate that returned Ok
    pc10            \* "new" | "simulate" | "loop" | "done" | "failed" | "panicked"

vars10 == <<instructions10, next_instr10, bot_inventory, bots, outputs, events,
            received10, delivered10, sent10, pc10>>

VARIABLES
    \* day_19.rs: part_2_deques
    count19,        \* argument `count`
    ahead,          \* VecDeque `ahead`
    behind,         \* VecDeque `behind`
    pc19,           \* "loop" | "done"
    result19        \* value returned by part_2_deques

vars19 == <<count19, ahead, behind, pc19, result19>>

VARIABLES
    \* day_19.rs: part_1_deques
    count19a,       \* argument `count`
    queue19a,       \* VecDeque `queue`
    pc19a,          \* "loop" | "done"
    result19a       \* value returned by part_1_deques

vars19a == <<count19a, queue19a, pc19a, result19a>>

VARIABLES
    \* day_05.rs: part_2
    hashes5,        \* what the MD5 of the input and each index starts with
    res5,           \* `res`
    mask5,          \* `mask`, as the set of the positions whose bit is set
    start5,         \* `start`
    window_size5,   \* `window_size`
    finished5,      \* the indices of the window the workers have evaluated, in
                    \* the order they finished
    events5,        \* `events`
    pc5,            \* "par" | "for" | "return" | "done" | "cut"
    result5         \* the returned String

vars5 == <<hashes5, res5, mask5, start5, window_size5, finished5, events5, pc5, result5>>

vars == <<vars23, vars14, vars20, vars11, vars21, vars15, varsG, varsP, vars10, vars19,
         vars19a, vars5>>

Idle23 == program23 = <<>> /\ machine = <<>> /\ pc23 = "idle" /\ result23 = 0
Idle14 == stream14 = <<>> /\ generator = <<>> /\ yielded14 = <<>>
Idle11 ==
    /\ facility = <<>> /\ queue11 = <<>> /\ visited11 = {}
    /\ pc11 = "idle" /\ result11 = 0
Idle21 ==
    /\ original21 = <<>> /\ instructions21 = <<>> /\ password21 = <<>>
    /\ done21 = 0 /\ pc21 = "idle"
Idle15 ==
    /\ sculpture = <<>> /\ time15 = 0 /\ time_step = 0 /\ disc_ix = 0
    /\ pc15 = "idle" /\ result15 = 0
IdleG ==
    /\ grid = <<>> /\ source = <<>> /\ target = <<>> /\ visited = <<>>
    /\ pending = <<>> /\ dist = 0 /\ level_left = 0 /\ pcG = "idle" /\ resultG = <<>>
Idle20 ==
    /\ blocked20 = <<>> /\ pending20 = <<>> /\ open20 = <<>>
    /\ last_close = 0 /\ pc20 = "idle" /\ result20 = 0
IdleP ==
    /\ originalP = <<>> /\ itemsP = <<>> /\ stackP = <<>> /\ callsP = <<>>
    /\ pcP = "idle"
Idle10 ==
    /\ instructions10 = <<>> /\ next_instr10 = 0 /\ bot_inventory = <<>>
    /\ bots = <<>> /\ outputs = <<>> /\ events = <<>> /\ received10 = <<>>
    /\ delivered10 = <<>> /\ sent10 = <<>> /\ pc10 = "idle"
Idle19 ==
    /\ count19 = 0 /\ ahead = <<>> /\ behind = <<>> /\ pc19 = "idle"
    /\ result19 = 0
Idle19a ==
    /\ count19a = 0 /\ queue19a = <<>> /\ pc19a = "idle" /\ result19a = 0
Idle5 ==
    /\ hashes5 = <<>> /\ res5 = <<>> /\ mask5 = {} /\ start5 = 0
    /\ window_size5 = 0 /\ finished5 = <<>> /\ events5 = <<>> /\ pc5 = "idle"
    /\ result5 = <<>>

(***************************************************************************)
(* Shared helpers                                                          *)
(***************************************************************************)
Min(a, b) == IF a <= b THEN a ELSE b
Max(a, b) == IF a >= b THEN a ELSE b

RECURSIVE Factorial(_)
Factorial(n) == IF n <= 1 THEN 1 ELSE n * Factorial(n - 1)

(***************************************************************************)
(* Day 23: assembunny machine with the tgl instruction                     *)
(***************************************************************************)
\* enum Reg { A, B, C, D } as register indices (1-based in the model)
RegA == 1
RegB == 2
RegC == 3
RegD == 4

\* enum RegOrValue
Reg(r)   == [isReg |-> TRUE,  n |-> r]
Value(v) == [isReg |-> FALSE, n |-> v]

\* enum Instruction
Cpy(x, y) == [op |-> "cpy", x |-> x, y |-> y]
Inc(x)    == [op |-> "inc", x |-> x, y |-> x]
Dec(x)    == [op |-> "dec", x |-> x, y |-> x]
Jnz(x, y) == [op |-> "jnz", x |-> x, y |-> y]
Tgl(x)    == [op |-> "tgl", x |-> x, y |-> x]

\* Instruction::toggle
toggle(i) ==
    CASE i.op = "cpy" -> Jnz(i.x, i.y)
      [] i.op = "inc" -> Dec(i.x)
      [] i.op = "dec" -> Inc(i.x)
      [] i.op = "tgl" -> Inc(i.x)
      [] i.op = "jnz" -> Cpy(i.x, i.y)

\* Machine::new ; instructions are indexed 0.. in the code, 1.. in the model,
\* the ip keeps the code's 0-based value
MachineNew(instructions) ==
    [instructions |-> instructions, ip |-> 0,
     registers |-> <<0, 0, 0, 0>>, stopped |-> FALSE]

get_register(m, reg) == m.registers[reg]
set_register(m, reg, value) == [m EXCEPT !.registers[reg] = value]
get_value(m, operand) == IF operand.isReg THEN get_register(m, operand.n) ELSE operand.n

\* the tail of Machine::step: self.ip += 1; self.stopped = self.ip >= len
Advance(m) ==
    [m EXCEPT !.ip = m.ip + 1, !.stopped = (m.ip + 1 >= Len(m.instructions))]

\* ip.checked_add_signed(d) is Some(new_ip) and new_ip < instructions.len()
InRange(m, d) == m.ip + d >= 0 /\ m.ip + d < Len(m.instructions)

\* Machine::step
step(m) ==
    IF m.stopped THEN m
    ELSE LET i == m.instructions[m.ip + 1] IN
      CASE i.op = "cpy" ->
             Advance(IF i.y.isReg THEN set_register(m, i.y.n, get_value(m, i.x)) ELSE m)
        [] i.op = "inc" ->
             Advance(IF i.x.isReg
                     THEN set_register(m, i.x.n, get_register(m, i.x.n) + 1) ELSE m)
        [] i.op = "dec" ->
             Advance(IF i.x.isReg
                     THEN set_register(m, i.x.n, get_register(m, i.x.n) - 1) ELSE m)
        [] i.op = "jnz" ->
             IF get_value(m, i.x) # 0
             THEN IF InRange(m, get_value(m, i.y))
                  THEN [m EXCEPT !.ip = m.ip + get_value(m, i.y)]
                  ELSE [m EXCEPT !.stopped = TRUE]
             ELSE Advance(m)
        [] i.op = "tgl" ->
             Advance(IF InRange(m, get_value(m, i.x))
                     THEN LET t == m.ip + get_value(m, i.x) + 1 IN
                          [m EXCEPT !.instructions[t] = toggle(m.instructions[t])]
                     ELSE m)

\* the register part_1 loads before machine.run(), and the factorials it
\* adds and subtracts afterwards
Part1Seed == 6
Part1Target == 7

\* part_1 after machine.run(): delta = a - 6!, result = 7! + delta
Part1Result(m) ==
    Factorial(Part1Target) + (get_register(m, RegA) - Factorial(Part1Seed))

\* tests::EXAMPLE
Example23 ==
    << Cpy(Value(2), Reg(RegA)), Tgl(Reg(RegA)), Tgl(Reg(RegA)), Tgl(Reg(RegA)),
       Cpy(Value(1), Reg(RegA)), Dec(Reg(RegA)), Dec(Reg(RegA)) >>

\* a multiplication loop in the style of the puzzle input: a := a * (a - 1)
\* by repeated increments, followed by a toggle of the closing jump
Multiply23 ==
    << Cpy(Reg(RegA), Reg(RegB)), Dec(Reg(RegB)), Cpy(Reg(RegA), Reg(RegD)),
       Cpy(Value(0), Reg(RegA)), Cpy(Reg(RegB), Reg(RegC)), Inc(Reg(RegA)),
       Dec(Reg(RegC)), Jnz(Reg(RegC), Value(-2)), Dec(Reg(RegD)),
       Jnz(Reg(RegD), Value(-5)), Tgl(Value(1)), Jnz(Value(1), Reg(RegB)) >>

Programs23 == {Example23, Multiply23}

Init23 ==
    /\ program23 \in Programs23
    /\ machine = set_register(MachineNew(program23), RegA, Part1Seed)
    /\ pc23 = "run"
    /\ result23 = 0
    /\ Idle14 /\ Idle20 /\ Idle11 /\ Idle21 /\ Idle15 /\ IdleG
    /\ IdleP /\ Idle10 /\ Idle19 /\ Idle19a /\ Idle5

\* one iteration of Machine::run: while !self.stopped { self.step() }
MachineStep ==
    /\ pc23 = "run"
    /\ ~machine.stopped
    /\ machine' = step(machine)
    /\ UNCHANGED <<program23, pc23, result23>>
    /\ UNCHANGED <<vars14, vars20, vars11, vars21, vars15, varsG, varsP, vars10, vars19,
                 vars19a, vars5>>

\* part_1 once run() has returned
Part1Return ==
    /\ pc23 = "run"
    /\ machine.stopped
    /\ result23' = Part1Result(machine)
    /\ pc23' = "done"
    /\ UNCHANGED <<program23, machine>>
    /\ UNCHANGED <<vars14, vars20, vars11, vars21, vars15, varsG, varsP, vars10, vars19,
                 vars19a, vars5>>

Next23 == MachineStep \/ Part1Return

SpecDay23 == Init23 /\ [][Next23]_vars

\* reference: the machine run to its halt from ip 0 with a = v, b = c = d = 0
RECURSIVE RunToHalt(_, _)
RunToHalt(m, fuel) ==
    IF m.stopped \/ fuel = 0 THEN m ELSE RunToHalt(step(m), fuel - 1)

MaxFuel23 == 400

HaltValue(program, v) ==
    get_register(RunToHalt(set_register(MachineNew(program), RegA, v), MaxFuel23), RegA)

\* C1: part_1(program) returns the value register a holds when the machine
\* halts after a run from ip 0 with a = 7 and b = c = d = 0 (3 for the
\* example program of the tests).
C1_Part1ReturnsHaltValueOfA ==
    pc23 = "done" =>
        /\ result23 = HaltValue(program23, Part1Target)
        /\ (program23 = Example23 => result23 = 3)

(***************************************************************************)
(* Day 14: one-time pad keys from a stream of hashes                       *)
(***************************************************************************)
\* The window of hashes PasswordGenerator looks ahead; the code uses 1000
\* (take(1000), index + 1000), the model a window short enough to enumerate.
Window == 3
\* the generator is run until index reaches MaxIndex14
MaxIndex14 == 4

Byte(hi, lo) == hi * 16 + lo

\* The [u8; 16] hashes HashGenerator can produce.  MD5 is not modelled: the
\* stream is any sequence over these hashes, shortened to 4 bytes (8 nibbles),
\* which is long enough for a run of three and a run of five in one hash.
Hashes14 ==
    { << Byte(0,1), Byte(2,3), Byte(4,5), Byte(6,7) >>,      \* no run
      << Byte(1,1), Byte(1,0), Byte(2,3), Byte(4,5) >>,      \* 111
      << Byte(0,0), Byte(0,2), Byte(2,2), Byte(2,2) >>,      \* 000 then 22222
      << Byte(3,1), Byte(1,1), Byte(1,1), Byte(4,5) >>,      \* 11111
      << Byte(2,2), Byte(2,2), Byte(0,1), Byte(1,1) >> }     \* 2222 then 111

\* struct Nibs: the high nibble of every byte, then its low nibble
RECURSIVE Nibs(_)
Nibs(data) ==
    IF data = <<>> THEN <<>>
    ELSE << Head(data) \div 16, Head(data) % 16 >> \o Nibs(Tail(data))

\* struct Chunked: runs of equal items as <<count, item>>; current starts at
\* T::default() = 0 with count 0, a run is emitted when the item changes
\* (if its count is positive) and the last one when the source ends
RECURSIVE ChunkedFrom(_, _, _)
ChunkedFrom(items, current, count) ==
    IF items = <<>>
    THEN IF count > 0 THEN << <<count, current>> >> ELSE <<>>
    ELSE IF Head(items) = current
         THEN ChunkedFrom(Tail(items), current, count + 1)
         ELSE (IF count > 0 THEN << <<count, current>> >> ELSE <<>>)
              \o ChunkedFrom(Tail(items), Head(items), 1)

Chunked(items) == ChunkedFrom(items, 0, 0)

\* Chunked::new(Nibs::new(&hash)).filter_map(|(n, nib)| (n >= 5).then_some(nib))
Nib5s(hash) ==
    LET runs == Chunked(Nibs(hash)) IN
    SelectSeq(runs, LAMBDA r : r[1] >= 5)

\* Chunked::new(Nibs::new(&hash1)).find(|&(n, _)| n >= 3): <<nib>> or <<>>
Nib3(hash) ==
    LET runs == SelectSeq(Chunked(Nibs(hash)), LAMBDA r : r[1] >= 3) IN
    IF runs = <<>> THEN <<>> ELSE << runs[1][2] >>

\* verifications[nib5] += 1; queue.push_back((label, nib5)) for every run
RECURSIVE Record5s(_, _, _)
Record5s(g, runs, label) ==
    IF runs = <<>> THEN g
    ELSE Record5s([g EXCEPT !.verifications[Head(runs)[2]] = @ + 1,
                            !.queue = Append(@, <<label, Head(runs)[2]>>)],
                  Tail(runs), label)

\* PasswordGenerator::new over the first Window hashes of the stream
RECURSIVE NewFrom(_, _, _)
NewFrom(g, hashes, i) ==
    IF i >= Len(hashes) THEN g
    ELSE NewFrom(Record5s(g, Nib5s(hashes[i + 1]), i), hashes, i + 1)

PasswordGeneratorNew(hashes) ==
    NewFrom([slow |-> 0, fast |-> Len(hashes), queue |-> <<>>,
             verifications |-> [n \in 0..15 |-> 0], index |-> 0], hashes, 0)

\* while let Some(&(j, nib5)) = queue.front() && j <= index { pop_front; -= 1 }
RECURSIVE Expire(_)
Expire(g) ==
    IF g.queue # <<>> /\ Head(g.queue)[1] <= g.index
    THEN Expire([g EXCEPT !.queue = Tail(@),
                          !.verifications[Head(g.queue)[2]] = @ - 1])
    ELSE g

\* to_yield of one turn of the loop of next(): <<(nib3, index)>> or <<>>
ToYield(g, hash1) ==
    LET n3 == Nib3(hash1) IN
    IF n3 # <<>> /\ g.verifications[n3[1]] > 0 THEN << <<n3[1], g.index>> >> ELSE <<>>

\* one turn of the loop of PasswordGenerator::next on hash1 = slow.next() and
\* hash2 = fast.next(): the generator afterwards
NextTurn(g, hash2) ==
    LET e == Expire(g)
        r == Record5s(e, Nib5s(hash2), e.index + Window)
    IN [r EXCEPT !.slow = @ + 1, !.fast = @ + 1, !.index = @ + 1]

Init14 ==
    /\ stream14 \in [1..Window -> Hashes14]
    /\ generator = PasswordGeneratorNew(stream14)
    /\ yielded14 = <<>>
    /\ Idle23 /\ Idle20 /\ Idle11 /\ Idle21 /\ Idle15 /\ IdleG
    /\ IdleP /\ Idle10 /\ Idle19 /\ Idle19a /\ Idle5

\* One turn of the loop of PasswordGenerator::next: fast.next() produces the
\* hash of position fast, slow.next() the hash of position slow; a turn that
\* finds a key returns it to the caller.
GeneratorNext ==
    /\ generator # <<>>
    /\ generator.index < MaxIndex14
    /\ \E hash2 \in Hashes14 :
         LET e == Expire(generator)
             hash1 == stream14[generator.slow + 1]
         IN /\ stream14' = Append(stream14, hash2)
            /\ yielded14' = yielded14 \o ToYield(e, hash1)
            /\ generator' = NextTurn(generator, hash2)
    /\ UNCHANGED <<vars23, vars20, vars11, vars21, vars15, varsG, varsP, vars10, vars19,
                 vars19a, vars5>>

Next14 == GeneratorNext

SpecDay14 == Init14 /\ [][Next14]_vars

\* reference: the run of three or more equal nibbles that starts first
HasRunAt(nibs, p, c, n) ==
    /\ p + n - 1 <= Len(nibs)
    /\ \A q \in p..(p + n - 1) : nibs[q] = c

FirstTripleIs(hash, c) ==
    LET nibs == Nibs(hash) IN
    \E p \in 1..Len(nibs) :
        /\ HasRunAt(nibs, p, c, 3)
        /\ \A q \in 1..(p - 1) : ~\E d \in 0..15 : HasRunAt(nibs, q, d, 3)

HasFive(hash, c) ==
    LET nibs == Nibs(hash) IN \E p \in 1..Len(nibs) : HasRunAt(nibs, p, c, 5)

\* the hash of position i (0-based) of the stream
HashAt(i) == stream14[i + 1]

IsKey(c, i) ==
    /\ FirstTripleIs(HashAt(i), c)
    /\ \E j \in (i + 1)..(i + Window) : HasFive(HashAt(j), c)

Yielded14Set == {yielded14[k] : k \in 1..Len(yielded14)}

\* C2: index i is yielded as key (c, i) exactly when the first run of three or
\* more equal nibbles of hash i is of nibble c and one of the next Window
\* hashes, i+1 through i+Window inclusive, has a run of five or more of c;
\* keys are yielded in strictly increasing index order.
C2_KeysAreTriplesConfirmedInWindow ==
    generator # <<>> =>
        /\ \A i \in 0..(generator.index - 1) : \A c \in 0..15 :
               (<<c, i>> \in Yielded14Set) <=> IsKey(c, i)
        /\ \A k \in 1..(Len(yielded14) - 1) : yielded14[k][2] < yielded14[k + 1][2]

(***************************************************************************)
(* Day 20: lowest address outside a list of blocked ranges                 *)
(***************************************************************************)
\* addresses of the model are 0..MaxAddr20, lists have 1..MaxRanges20 ranges
MaxAddr20 == 4
MaxRanges20 == 3

\* struct Range(u32, u32), inclusive, start <= end
Ranges20 == {r \in (0..MaxAddr20) \X (0..MaxAddr20) : r[1] <= r[2]}

\* the sort key (r.0, Reverse(r.1)): by start, then by larger end first
KeyLess(r, q) == r[1] < q[1] \/ (r[1] = q[1] /\ r[2] > q[2])

\* pending.sort_unstable_by_key(|r| (r.0, Reverse(r.1)))
RECURSIVE InsertByKey(_, _)
InsertByKey(sorted, r) ==
    IF sorted = <<>> THEN <<r>>
    ELSE IF KeyLess(r, Head(sorted)) THEN <<r>> \o sorted
         ELSE <<Head(sorted)>> \o InsertByKey(Tail(sorted), r)

RECURSIVE SortByKey(_)
SortByKey(list) ==
    IF list = <<>> THEN <<>> ELSE InsertByKey(SortByKey(Tail(list)), Head(list))

\* BinaryHeap<u32> is a max-heap: peek() is the largest element
HeapPeek(heap) == CHOOSE e \in {heap[k] : k \in 1..Len(heap)} :
                      \A k \in 1..Len(heap) : heap[k] <= e

\* BinaryHeap::pop: one occurrence of the largest element leaves
HeapPop(heap) ==
    LET k == CHOOSE k \in 1..Len(heap) : heap[k] = HeapPeek(heap)
    IN SubSeq(heap, 1, k - 1) \o SubSeq(heap, k + 1, Len(heap))

\* while let Some(&end) = open.peek() { if end <= range.0 { last_close =
\* last_close.max(end); open.pop(); } else { break; } }: <<open, last_close>>
RECURSIVE CloseUpTo(_, _, _)
CloseUpTo(heap, close, start) ==
    IF heap # <<>> /\ HeapPeek(heap) <= start
    THEN CloseUpTo(HeapPop(heap), Max(close, HeapPeek(heap)), start)
    ELSE <<heap, close>>

Init20 ==
    /\ blocked20 \in UNION {[1..n -> Ranges20] : n \in 1..MaxRanges20}
    /\ pending20 = SortByKey(blocked20)
    /\ open20 = <<>>
    /\ last_close = 0
    /\ pc20 = "loop"
    /\ result20 = 0
    /\ Idle23 /\ Idle14 /\ Idle11 /\ Idle21 /\ Idle15 /\ IdleG
    /\ IdleP /\ Idle10 /\ Idle19 /\ Idle19a /\ Idle5

\* one turn of `for range in pending` that does not return
Part1Visit ==
    /\ pc20 = "loop"
    /\ pending20 # <<>>
    /\ LET range == Head(pending20)
           closed == CloseUpTo(open20, last_close, range[1])
       IN /\ ~(closed[1] = <<>> /\ closed[2] < range[1])
          /\ open20' = Append(closed[1], range[2] + 1)
          /\ last_close' = closed[2]
    /\ pending20' = Tail(pending20)
    /\ UNCHANGED <<blocked20, pc20, result20>>
    /\ UNCHANGED <<vars23, vars14, vars11, vars21, vars15, varsG, varsP, vars10, vars19,
                 vars19a, vars5>>

\* the turn that finds nothing open before range.0: return last_close
Part1Gap ==
    /\ pc20 = "loop"
    /\ pending20 # <<>>
    /\ LET range == Head(pending20)
           closed == CloseUpTo(open20, last_close, range[1])
       IN /\ closed[1] = <<>> /\ closed[2] < range[1]
          /\ open20' = closed[1]
          /\ last_close' = closed[2]
          /\ result20' = closed[2]
    /\ pc20' = "done"
    /\ UNCHANGED <<blocked20, pending20>>
    /\ UNCHANGED <<vars23, vars14, vars11, vars21, vars15, varsG, varsP, vars10, vars19,
                 vars19a, vars5>>

\* the loop ran out of ranges: part_1 returns 0
Part1Exhausted ==
    /\ pc20 = "loop"
    /\ pending20 = <<>>
    /\ result20' = 0
    /\ pc20' = "done"
    /\ UNCHANGED <<blocked20, pending20, open20, last_close>>
    /\ UNCHANGED <<vars23, vars14, vars11, vars21, vars15, varsG, varsP, vars10, vars19,
                 vars19a, vars5>>

Next20 == Part1Visit \/ Part1Gap \/ Part1Exhausted

SpecDay20 == Init20 /\ [][Next20]_vars

\* reference: address n lies in one of the blocked ranges
IsBlocked(n) == \E k \in 1..Len(blocked20) : blocked20[k][1] <= n /\ n <= blocked20[k][2]

\* C3: for a non-empty list of inclusive blocked ranges that leaves an address
\* unblocked, part_1 returns the smallest non-negative integer that lies in
\* none of the ranges.
C3_Part1ReturnsLowestUnblocked ==
    (pc20 = "done" /\ Len(blocked20) >= 1) =>
        /\ ~IsBlocked(result20)
        /\ \A n \in 0..(result20 - 1) : IsBlocked(n)

(***************************************************************************)
(* Day 11: breadth-first search over bit-packed elevator states            *)
(***************************************************************************)
\* enum Floor { First, Second, Third, Fourth } with its repr(u8) values
First == 0
Fourth == 3
Floors == First..Fourth

\* facilities with up to SmallMaterials11 materials are enumerated in full
SmallMaterials11 == 2

\* struct State { bits, material_count, round }.  Item i occupies the two
\* bits 2i, 2i+1: generators 0..n-1, chips n..2n-1, the elevator is item 2n.
\* State::from_facility: items is sorted, generators before chips, and the
\* elevator bits are left at 0 (Floor::First).
RECURSIVE PackBits(_)
PackBits(floors) ==
    IF floors = <<>> THEN 0 ELSE Head(floors) + 4 * PackBits(Tail(floors))

from_facility(f) ==
    [bits |-> PackBits(f.items), material_count |-> f.materials, round |-> 0]

\* State::floor_of: (bits >> (2 * item_index)) & 0b11
floor_of(st, item_index) == (st.bits \div (4 ^ item_index)) % 4

\* State::elevator_floor
elevator_floor(st) == floor_of(st, 2 * st.material_count)

\* State::with_item: clear the two bits of the item, then set them
with_item(st, item, floor) ==
    [st EXCEPT !.bits = @ - floor_of(st, item) * (4 ^ item) + floor * (4 ^ item)]

\* State::with_elevator
with_elevator(st, floor) == with_item(st, 2 * st.material_count, floor)

\* State::with_next_round
with_next_round(st) == [st EXCEPT !.round = @ + 1]

\* (generator, chip) pairs in the derived lexicographic order of the tuple
PairLess(p, q) == p[1] < q[1] \/ (p[1] = q[1] /\ p[2] <= q[2])

RECURSIVE InsertPair(_, _)
InsertPair(sorted, p) ==
    IF sorted = <<>> THEN <<p>>
    ELSE IF PairLess(p, Head(sorted)) THEN <<p>> \o sorted
         ELSE <<Head(sorted)>> \o InsertPair(Tail(sorted), p)

RECURSIVE SortPairs(_)
SortPairs(list) ==
    IF list = <<>> THEN <<>> ELSE InsertPair(SortPairs(Tail(list)), Head(list))

\* State::normalize: the materials reordered by their (generator, chip) floors
normalize(st) ==
    LET n == st.material_count
        gens_and_chips ==
            SortPairs([m \in 1..n |-> <<floor_of(st, m - 1), floor_of(st, n + m - 1)>>])
        floors == [k \in 1..(2 * n + 1) |->
                     IF k <= n THEN gens_and_chips[k][1]
                     ELSE IF k <= 2 * n THEN gens_and_chips[k - n][2]
                     ELSE elevator_floor(st)]
    IN [st EXCEPT !.bits = PackBits(floors)]

\* State::is_safe
is_safe(st) ==
    LET n == st.material_count
        floor_has_gen == [fl \in Floors |-> \E g \in 0..(n - 1) : floor_of(st, g) = fl]
    IN \A material \in 0..(n - 1) :
           \/ floor_of(st, material) = floor_of(st, n + material)
           \/ ~floor_has_gen[floor_of(st, n + material)]

\* State::is_completed
is_completed(st) ==
    \A item \in 0..(2 * st.material_count) : floor_of(st, item) = Fourth

\* [elevator.up(), elevator.down()].into_iter().flatten()
NewFloors(elevator) ==
    (IF elevator < Fourth THEN <<elevator + 1>> ELSE <<>>)
    \o (IF elevator > First THEN <<elevator - 1>> ELSE <<>>)

\* the inner loop of enqueue_moves: the safe two-item moves of item1 with
\* item2 = from..item_count-1, in order
RECURSIVE PairMoves(_, _, _, _, _)
PairMoves(st, single, new_floor, from, item_count) ==
    IF from >= item_count THEN <<>>
    ELSE (IF floor_of(st, from) = elevator_floor(st)
             /\ is_safe(with_item(single, from, new_floor))
          THEN << with_item(single, from, new_floor) >> ELSE <<>>)
         \o PairMoves(st, single, new_floor, from + 1, item_count)

\* what one item1 adds to the queue.  Going down, a safe single move ends the
\* turn (continue); going up, the first safe pair pops the single move again.
PrunedItemMoves(st, new_floor, item1) ==
    LET elevator == elevator_floor(st)
        single == with_item(with_elevator(with_next_round(st), new_floor),
                            item1, new_floor)
        pairs == PairMoves(st, single, new_floor, item1 + 1, 2 * st.material_count)
    IN IF floor_of(st, item1) # elevator THEN <<>>
       ELSE IF ~is_safe(single) THEN pairs
       ELSE IF new_floor < elevator THEN <<single>>
       ELSE IF pairs # <<>> THEN pairs
       ELSE <<single>>

ItemMoves(st, new_floor, item1) == PrunedItemMoves(st, new_floor, item1)

RECURSIVE FloorMoves(_, _, _)
FloorMoves(st, new_floor, item1) ==
    IF item1 >= 2 * st.material_count THEN <<>>
    ELSE ItemMoves(st, new_floor, item1) \o FloorMoves(st, new_floor, item1 + 1)

RECURSIVE MovesTo(_, _)
MovesTo(st, new_floors) ==
    IF new_floors = <<>> THEN <<>>
    ELSE FloorMoves(st, Head(new_floors), 0) \o MovesTo(st, Tail(new_floors))

\* State::enqueue_moves: the queue afterwards
enqueue_moves(st, queue) == queue \o MovesTo(st, NewFloors(elevator_floor(st)))

\* struct Facility as {materials: count, items: floors of generator 0..n-1
\* followed by the floors of chip 0..n-1}
FacilitiesOf(n) == {[materials |-> n, items |-> it] : it \in [1..(2 * n) -> Floors]}

\* first floor: generator 0; second: chip 0; third: generators and chips 1
\* and 2; fourth: generator and chip 3
FourMaterials11 ==
    [materials |-> 4, items |-> <<0, 2, 2, 3, 1, 2, 2, 3>>]

Facilities11 == FacilitiesOf(SmallMaterials11) \cup {FourMaterials11}

Init11 ==
    /\ facility \in Facilities11
    /\ queue11 = << from_facility(facility) >>
    /\ visited11 = {}
    /\ pc11 = "loop"
    /\ result11 = 0
    /\ Idle23 /\ Idle14 /\ Idle20 /\ Idle21 /\ Idle15 /\ IdleG
    /\ IdleP /\ Idle10 /\ Idle19 /\ Idle19a /\ Idle5

\* while let Some(state) = queue.pop_front(): a state seen before is skipped
SolveSkip ==
    /\ pc11 = "loop" /\ queue11 # <<>>
    /\ normalize(Head(queue11)).bits \in visited11
    /\ queue11' = Tail(queue11)
    /\ UNCHANGED <<facility, visited11, pc11, result11>>
    /\ UNCHANGED <<vars23, vars14, vars20, vars21, vars15, varsG, varsP, vars10, vars19,
                 vars19a, vars5>>

\* a new state that is completed: return state.round
SolveCompleted ==
    /\ pc11 = "loop" /\ queue11 # <<>>
    /\ LET state == normalize(Head(queue11)) IN
         /\ state.bits \notin visited11
         /\ is_completed(state)
         /\ visited11' = visited11 \cup {state.bits}
         /\ result11' = state.round
    /\ queue11' = Tail(queue11)
    /\ pc11' = "done"
    /\ UNCHANGED facility
    /\ UNCHANGED <<vars23, vars14, vars20, vars21, vars15, varsG, varsP, vars10, vars19,
                 vars19a, vars5>>

\* a new state that is not completed: its moves join the queue
SolveExpand ==
    /\ pc11 = "loop" /\ queue11 # <<>>
    /\ LET state == normalize(Head(queue11)) IN
         /\ state.bits \notin visited11
         /\ ~is_completed(state)
         /\ visited11' = visited11 \cup {state.bits}
         /\ queue11' = enqueue_moves(state, Tail(queue11))
    /\ UNCHANGED <<facility, pc11, result11>>
    /\ UNCHANGED <<vars23, vars14, vars20, vars21, vars15, varsG, varsP, vars10, vars19,
                 vars19a, vars5>>

\* the queue ran empty: solve returns 0
SolveExhausted ==
    /\ pc11 = "loop" /\ queue11 = <<>>
    /\ result11' = 0
    /\ pc11' = "done"
    /\ UNCHANGED <<facility, queue11, visited11>>
    /\ UNCHANGED <<vars23, vars14, vars20, vars21, vars15, varsG, varsP, vars10, vars19,
                 vars19a, vars5>>

Next11 == SolveSkip \/ SolveCompleted \/ SolveExpand \/ SolveExhausted

SpecDay11 == Init11 /\ [][Next11]_vars

\* reference: configurations are the floors of generators 0..n-1, of chips
\* 0..n-1 and of the elevator (position 2n+1), without any packing
StartConfig(f) == f.items \o <<First>>

\* no chip shares a floor with a generator unless its own generator is there
SafeConfig(c, n) ==
    \A chip \in 1..n :
        (\E g \in 1..n : c[g] = c[n + chip]) => c[chip] = c[n + chip]

\* every move: the elevator goes one floor up or down and carries one or two
\* of the items of its floor; the configuration it reaches must be safe
MoveConfigs(c, n) ==
    LET e == c[2 * n + 1]
        here == {i \in 1..(2 * n) : c[i] = e}
    IN { d \in { [k \in 1..(2 * n + 1) |->
                    IF k = 2 * n + 1 \/ k = cargo[2] \/ k = cargo[3]
                    THEN cargo[1] ELSE c[k]] :
                 cargo \in {t \in {e - 1, e + 1} \X here \X here :
                              t[1] \in Floors /\ t[2] <= t[3]} } :
         SafeConfig(d, n) }

GoalConfig(n) == [k \in 1..(2 * n + 1) |-> Fourth]

\* the number of moves of a shortest sequence of moves from the configurations
\* of `frontier` (reached in d moves) to the goal; -1 when there is none
RECURSIVE MinMovesFrom(_, _, _, _)
MinMovesFrom(frontier, seen, d, n) ==
    IF GoalConfig(n) \in frontier THEN d
    ELSE IF frontier = {} THEN -1
    ELSE LET next == (UNION {MoveConfigs(c, n) : c \in frontier}) \ seen
         IN MinMovesFrom(next, seen \cup next, d + 1, n)

MinMoves(f) ==
    MinMovesFrom({StartConfig(f)}, {StartConfig(f)}, 0, f.materials)

\* C4: solve(state) returns the minimum number of elevator moves that brings
\* every generator, every microchip and the elevator to the fourth floor
\* through safe states only; the pruning of enqueue_moves does not change it.
C4_SolveReturnsMinimumMoves ==
    (pc11 = "done" /\ MinMoves(facility) >= 0) => result11 = MinMoves(facility)

\* the same for the facilities of at most SmallMaterials11 materials
C4_SolveMinimalOnSmallFacilities ==
    (pc11 = "done" /\ facility.materials <= SmallMaterials11
        /\ MinMoves(facility) >= 0) => result11 = MinMoves(facility)

(***************************************************************************)
(* Day 21: scrambling a password and undoing it                            *)
(***************************************************************************)
\* passwords have 8 letters (b"abcdefgh"), instruction lists up to MaxInstr21
PasswordLen == 8
MaxInstr21 == 2

\* enum Letter { A .. H } and Letter::to_u8: self as u8 + b'a'
Letters == 0..(PasswordLen - 1)
to_u8(letter) == letter + 97

\* enum Instruction
SwapPosition(x, y)  == [op |-> "SwapPosition", x |-> x, y |-> y]
SwapLetters(x, y)   == [op |-> "SwapLetters", x |-> x, y |-> y]
RotateLeft(n)       == [op |-> "RotateLeft", x |-> n, y |-> n]
RotateRight(n)      == [op |-> "RotateRight", x |-> n, y |-> n]
RotateByLetter(l)   == [op |-> "RotateByLetter", x |-> l, y |-> l]
ReverseRange(x, y)  == [op |-> "ReverseRange", x |-> x, y |-> y]
MovePosition(x, y)  == [op |-> "MovePosition", x |-> x, y |-> y]

\* slice operations of the standard library; positions are 0-based
swap(p, a, b) == [p EXCEPT ![a + 1] = p[b + 1], ![b + 1] = p[a + 1]]
rotate_left(p, mid) == SubSeq(p, mid + 1, Len(p)) \o SubSeq(p, 1, mid)
rotate_right(p, k) == rotate_left(p, Len(p) - k)
reverse(p) == [k \in 1..Len(p) |-> p[Len(p) + 1 - k]]
\* password.iter().position(|&ch| ch == byte).unwrap()
position(p, byte) == (CHOOSE k \in 1..Len(p) : p[k] = byte /\ \A j \in 1..(k - 1) : p[j] # byte) - 1
\* password[lo..=hi] replaced by `middle`
WithRange(p, lo, hi, middle) ==
    SubSeq(p, 1, lo) \o middle \o SubSeq(p, hi + 2, Len(p))

\* password[lo..=hi].reverse(), .rotate_left(1) and .rotate_right(1)
ReverseOn(p, lo, hi) == WithRange(p, lo, hi, reverse(SubSeq(p, lo + 1, hi + 1)))
RotL1(p, lo, hi) == WithRange(p, lo, hi, rotate_left(SubSeq(p, lo + 1, hi + 1), 1))
RotR1(p, lo, hi) == WithRange(p, lo, hi, rotate_right(SubSeq(p, lo + 1, hi + 1), 1))

\* the rotation RotateByLetter makes for a letter found at pos
LetterRotation(pos, n) == (pos + 1 + (IF pos >= 4 THEN 1 ELSE 0)) % n

\* one turn of the loop of scamble
ScambleOne(password, instr) ==
    CASE instr.op = "SwapPosition" -> swap(password, instr.x, instr.y)
      [] instr.op = "SwapLetters" ->
           swap(password, position(password, to_u8(instr.x)),
                          position(password, to_u8(instr.y)))
      [] instr.op = "RotateLeft" -> rotate_left(password, instr.x)
      [] instr.op = "RotateRight" -> rotate_right(password, instr.x)
      [] instr.op = "RotateByLetter" ->
           rotate_right(password,
               LetterRotation(position(password, to_u8(instr.x)), Len(password)))
      [] instr.op = "ReverseRange" ->
           ReverseOn(password, Min(instr.x, instr.y), Max(instr.x, instr.y))
      [] instr.op = "MovePosition" ->
           IF instr.x < instr.y THEN RotL1(password, instr.x, instr.y)
           ELSE IF instr.x > instr.y THEN RotR1(password, instr.y, instr.x)
           ELSE password

\* the candidate loop of unscamble for RotateByLetter: matched_index after
\* candidate_index = from..n-1, as <<rot>> or <<>> (the last match wins)
RECURSIVE MatchedRotation(_, _, _, _)
MatchedRotation(scrambled, byte, from, matched) ==
    IF from >= Len(scrambled) THEN matched
    ELSE LET rot == LetterRotation(from, Len(scrambled)) IN
         MatchedRotation(scrambled, byte, from + 1,
             IF rotate_left(scrambled, rot)[from + 1] = byte THEN <<rot>> ELSE matched)

UndoRotateByLetter(scrambled, letter) ==
    LET matched == MatchedRotation(scrambled, to_u8(letter), 0, <<>>) IN
    IF matched # <<>> THEN rotate_left(scrambled, matched[1]) ELSE scrambled

\* one turn of the loop of unscamble
UnscambleOne(scrambled, instr) ==
    CASE instr.op = "SwapPosition" -> swap(scrambled, instr.x, instr.y)
      [] instr.op = "SwapLetters" ->
           swap(scrambled, position(scrambled, to_u8(instr.x)),
                           position(scrambled, to_u8(instr.y)))
      [] instr.op = "RotateLeft" -> rotate_right(scrambled, instr.x)
      [] instr.op = "RotateRight" -> rotate_left(scrambled, instr.x)
      [] instr.op = "RotateByLetter" -> UndoRotateByLetter(scrambled, instr.x)
      [] instr.op = "ReverseRange" ->
           ReverseOn(scrambled, Min(instr.x, instr.y), Max(instr.x, instr.y))
      [] instr.op = "MovePosition" ->
           IF instr.x < instr.y THEN RotR1(scrambled, instr.x, instr.y)
           ELSE IF instr.x > instr.y THEN RotL1(scrambled, instr.y, instr.x)
           ELSE scrambled

\* instructions with positions (and letters) from P and rotations from R
InstructionsOver(P, R) ==
    {SwapPosition(x, y) : x \in P, y \in P}
    \cup {SwapLetters(x, y) : x \in P, y \in P}
    \cup {RotateLeft(n) : n \in R}
    \cup {RotateRight(n) : n \in R}
    \cup {RotateByLetter(l) : l \in P}
    \cup {ReverseRange(x, y) : x \in P, y \in P}
    \cup {MovePosition(x, y) : x \in P, y \in P}

\* every instruction whose positions are below 8 and whose rotations are at
\* most 8
Positions21 == 0..(PasswordLen - 1)
Instructions21 == InstructionsOver(Positions21, 0..PasswordLen)

\* the instructions used in lists of three or more: the ends of the password
\* and the first position with `pos >= 4` in RotateByLetter
SampleInstructions21 == InstructionsOver({0, 4, 7}, {1})

\* lists of one or two instructions over every instruction, longer lists
\* over the sample
InstructionLists21 ==
    [1..1 -> Instructions21]
    \cup (IF MaxInstr21 >= 2 THEN [1..2 -> Instructions21] ELSE {})
    \cup UNION {[1..n -> SampleInstructions21] : n \in 3..MaxInstr21}

\* b"abcdefgh" of part_1 and b"fbgdceah" of part_2
Passwords21 ==
    { [k \in 1..PasswordLen |-> to_u8(k - 1)],
      << to_u8(5), to_u8(1), to_u8(6), to_u8(3), to_u8(2), to_u8(4), to_u8(0), to_u8(7) >> }

Init21 ==
    /\ original21 \in Passwords21
    /\ instructions21 \in InstructionLists21
    /\ password21 = original21
    /\ done21 = 0
    /\ pc21 = "scamble"
    /\ Idle23 /\ Idle14 /\ Idle20 /\ Idle11 /\ Idle15 /\ IdleG
    /\ IdleP /\ Idle10 /\ Idle19 /\ Idle19a /\ Idle5

\* for &instr in instructions
ScambleStep ==
    /\ pc21 = "scamble" /\ done21 < Len(instructions21)
    /\ password21' = ScambleOne(password21, instructions21[done21 + 1])
    /\ done21' = done21 + 1
    /\ UNCHANGED <<original21, instructions21, pc21>>
    /\ UNCHANGED <<vars23, vars14, vars20, vars11, vars15, varsG, varsP, vars10, vars19,
                 vars19a, vars5>>

\* scamble returns; unscamble is called on the scrambled buffer
ScambleReturn ==
    /\ pc21 = "scamble" /\ done21 = Len(instructions21)
    /\ pc21' = "unscamble"
    /\ done21' = 0
    /\ UNCHANGED <<original21, instructions21, password21>>
    /\ UNCHANGED <<vars23, vars14, vars20, vars11, vars15, varsG, varsP, vars10, vars19,
                 vars19a, vars5>>

\* mutant of UnscambleOrder: the list walked front to back, without .rev()
UnscambleForward(instrs, k) == instrs[k]

\* the instruction turn number k (1-based) of unscamble handles
UnscambleOrder(instrs, k) == instrs[Len(instrs) + 1 - k]

\* for &instr in instructions.iter().rev()
UnscambleStep ==
    /\ pc21 = "unscamble" /\ done21 < Len(instructions21)
    /\ password21' = UnscambleOne(password21, UnscambleOrder(instructions21, done21 + 1))
    /\ done21' = done21 + 1
    /\ UNCHANGED <<original21, instructions21, pc21>>
    /\ UNCHANGED <<vars23, vars14, vars20, vars11, vars15, varsG, varsP, vars10, vars19,
                 vars19a, vars5>>

UnscambleReturn ==
    /\ pc21 = "unscamble" /\ done21 = Len(instructions21)
    /\ pc21' = "done"
    /\ UNCHANGED <<original21, instructions21, password21, done21>>
    /\ UNCHANGED <<vars23, vars14, vars20, vars11, vars15, varsG, varsP, vars10, vars19,
                 vars19a, vars5>>

Next21 == ScambleStep \/ ScambleReturn \/ UnscambleStep \/ UnscambleReturn

SpecDay21 == Init21 /\ [][Next21]_vars

\* C5: on 8-letter passwords that are permutations of a-h, unscamble after
\* scamble with the same instruction list gives the original password back.
C5_UnscambleInvertsScamble ==
    pc21 = "done" => password21 = original21

\* a list of two instructions that do not commute was scrambled (the password
\* changed on the way) and has been unscrambled
C5_Witness ==
    /\ pc21 = "done"
    /\ Len(instructions21) = 2
    /\ instructions21[1].op = "RotateByLetter"
    /\ instructions21[2].op = "MovePosition"
    /\ ScambleOne(ScambleOne(original21, instructions21[1]), instructions21[2])
         # ScambleOne(ScambleOne(original21, instructions21[2]), instructions21[1])

(***************************************************************************)
(* Day 15: the first time at which every disc is at position 0             *)
(***************************************************************************)
\* up to MaxDiscs15 discs of 1..MaxPositions15 positions; the search is cut
\* off when time would pass MaxTime15
MaxDiscs15 == 3
MaxPositions15 == 3
MaxTime15 == 40

\* struct Disc
Disc(id, num_positions, initial_position) ==
    [id |-> id, num_positions |-> num_positions, initial_position |-> initial_position]

\* the inputs of n discs: "Disc #1", "Disc #2", ... in order, each at a
\* position it has
RECURSIVE DiscListsOf(_)
DiscListsOf(n) ==
    IF n = 0 THEN {<<>>}
    ELSE UNION { { Append(l, Disc(n, np, ip)) :
                      l \in DiscListsOf(n - 1), ip \in 0..(np - 1) }
                 : np \in 1..MaxPositions15 }

DiscLists15 == UNION {DiscListsOf(n) : n \in 1..MaxDiscs15}

\* the condition of the while loop, negated: the disc lets the capsule pass
Aligned(t, disc) == (t + disc.id + disc.initial_position) % disc.num_positions = 0

Init15 ==
    /\ sculpture \in {[discs |-> d] : d \in DiscLists15}
    /\ time15 = 0
    /\ time_step = 1
    /\ disc_ix = 0
    /\ pc15 = "loop"
    /\ result15 = 0
    /\ Idle23 /\ Idle14 /\ Idle20 /\ Idle11 /\ Idle21 /\ IdleG
    /\ IdleP /\ Idle10 /\ Idle19 /\ Idle19a /\ Idle5

\* while (time + id + initial_position) % num_positions != 0 { time += time_step }
AdvanceTime ==
    /\ pc15 = "loop" /\ disc_ix < Len(sculpture.discs)
    /\ ~Aligned(time15, sculpture.discs[disc_ix + 1])
    /\ time15 + time_step <= MaxTime15
    /\ time15' = time15 + time_step
    /\ UNCHANGED <<sculpture, time_step, disc_ix, pc15, result15>>
    /\ UNCHANGED <<vars23, vars14, vars20, vars11, vars21, varsG, varsP, vars10, vars19,
                 vars19a, vars5>>

\* the while loop ends: time_step *= disc.num_positions, on to the next disc
NextDisc ==
    /\ pc15 = "loop" /\ disc_ix < Len(sculpture.discs)
    /\ Aligned(time15, sculpture.discs[disc_ix + 1])
    /\ time_step' = time_step * sculpture.discs[disc_ix + 1].num_positions
    /\ disc_ix' = disc_ix + 1
    /\ UNCHANGED <<sculpture, time15, pc15, result15>>
    /\ UNCHANGED <<vars23, vars14, vars20, vars11, vars21, varsG, varsP, vars10, vars19,
                 vars19a, vars5>>

\* the for loop ends: return time
ReturnTime ==
    /\ pc15 = "loop" /\ disc_ix = Len(sculpture.discs)
    /\ result15' = time15
    /\ pc15' = "done"
    /\ UNCHANGED <<sculpture, time15, time_step, disc_ix>>
    /\ UNCHANGED <<vars23, vars14, vars20, vars11, vars21, varsG, varsP, vars10, vars19,
                 vars19a, vars5>>

Next15 == AdvanceTime \/ NextDisc \/ ReturnTime

SpecDay15 == Init15 /\ [][Next15]_vars

\* reference: t is an alignment time of all discs
AlignsAll(t, discs) == \A k \in 1..Len(discs) : Aligned(t, discs[k])

\* C6: for discs for which an alignment time exists, find_alignment_time
\* returns the least t >= 0 with (t + id + initial_position) mod num_positions
\* = 0 for every disc.
C6_ReturnsLeastAlignmentTime ==
    pc15 = "done" =>
        /\ AlignsAll(result15, sculpture.discs)
        /\ \A t \in 0..(result15 - 1) : ~AlignsAll(t, sculpture.discs)

(***************************************************************************)
(* utils: Grid::shortest_path, a breadth-first search on a grid of tiles   *)
(***************************************************************************)
\* grids of at most MaxCells cells, in every shape rows x cols
MaxCells == 8

\* tiles in the style of day_24.rs; is_passable: !matches!(self, Self::Wall)
Tiles == {"Wall", "Open"}
is_passable(tile) == tile # "Wall"

\* Index<(usize, usize)>: &self.data[row * self.cols + col]
At(g, pos) == g.data[pos[1] * g.cols + pos[2] + 1]

\* IndexMut, used as visited[pos] = true
WithAt(g, pos, value) == [g EXCEPT !.data[pos[1] * g.cols + pos[2] + 1] = value]

\* Grid::<bool>::new(rows, cols)
GridNew(rows, cols) ==
    [data |-> [k \in 1..(rows * cols) |-> FALSE], rows |-> rows, cols |-> cols]

\* the four candidates of enqueue_neighbors in the order of the array: up,
\* left, down, right; checked_sub(1) is None at 0
Candidates(g, pos) ==
    (IF pos[1] >= 1 THEN << <<pos[1] - 1, pos[2]>> >> ELSE <<>>)
    \o (IF pos[2] >= 1 THEN << <<pos[1], pos[2] - 1>> >> ELSE <<>>)
    \o (IF pos[1] + 1 < g.rows THEN << <<pos[1] + 1, pos[2]>> >> ELSE <<>>)
    \o (IF pos[2] + 1 < g.cols THEN << <<pos[1], pos[2] + 1>> >> ELSE <<>>)

\* mutant of PassableOnly: the filter on is_passable left out
PassableOrNot(g, cands) == cands

\* the filter of enqueue_neighbors
PassableOnly(g, cands) == SelectSeq(cands, LAMBDA pos1 : is_passable(At(g, pos1)))

\* Grid::enqueue_neighbors: the queue afterwards
enqueue_neighbors(g, pos, queue) == queue \o PassableOnly(g, Candidates(g, pos))

Shapes == {sh \in (1..MaxCells) \X (1..MaxCells) : sh[1] * sh[2] <= MaxCells}
CellsOf(g) == (0..(g.rows - 1)) \X (0..(g.cols - 1))

InitG ==
    /\ \E sh \in Shapes :
         grid \in {[data |-> d, rows |-> sh[1], cols |-> sh[2]] :
                      d \in [1..(sh[1] * sh[2]) -> Tiles]}
    /\ source \in CellsOf(grid)
    /\ target \in CellsOf(grid)
    /\ visited = GridNew(grid.rows, grid.cols)
    /\ pending = <<source>>
    /\ dist = 0
    /\ level_left = 0
    /\ pcG = "while"
    /\ resultG = <<>>
    /\ Idle23 /\ Idle14 /\ Idle20 /\ Idle11 /\ Idle21 /\ Idle15
    /\ IdleP /\ Idle10 /\ Idle19 /\ Idle19a /\ Idle5

\* while !pending.is_empty() { for _ in 0..pending.len() {
LevelStart ==
    /\ pcG = "while" /\ pending # <<>>
    /\ level_left' = Len(pending)
    /\ pcG' = "for"
    /\ UNCHANGED <<grid, source, target, visited, pending, dist, resultG>>
    /\ UNCHANGED <<vars23, vars14, vars20, vars11, vars21, vars15, varsP, vars10, vars19,
                 vars19a, vars5>>

\* the queue is empty: return None
ReturnNone ==
    /\ pcG = "while" /\ pending = <<>>
    /\ resultG' = <<>>
    /\ pcG' = "done"
    /\ UNCHANGED <<grid, source, target, visited, pending, dist, level_left>>
    /\ UNCHANGED <<vars23, vars14, vars20, vars11, vars21, vars15, varsP, vars10, vars19,
                 vars19a, vars5>>

\* a popped position that was visited before: continue
PopVisited ==
    /\ pcG = "for" /\ level_left > 0
    /\ At(visited, Head(pending))
    /\ pending' = Tail(pending)
    /\ level_left' = level_left - 1
    /\ UNCHANGED <<grid, source, target, visited, dist, pcG, resultG>>
    /\ UNCHANGED <<vars23, vars14, vars20, vars11, vars21, vars15, varsP, vars10, vars19,
                 vars19a, vars5>>

\* the popped position is the target: return Some(dist)
PopTarget ==
    /\ pcG = "for" /\ level_left > 0
    /\ ~At(visited, Head(pending))
    /\ Head(pending) = target
    /\ visited' = WithAt(visited, Head(pending), TRUE)
    /\ pending' = Tail(pending)
    /\ resultG' = <<dist>>
    /\ pcG' = "done"
    /\ UNCHANGED <<grid, source, target, dist, level_left>>
    /\ UNCHANGED <<vars23, vars14, vars20, vars11, vars21, vars15, varsP, vars10, vars19,
                 vars19a, vars5>>

\* any other new position: mark it and enqueue its passable neighbours
PopExpand ==
    /\ pcG = "for" /\ level_left > 0
    /\ ~At(visited, Head(pending))
    /\ Head(pending) # target
    /\ visited' = WithAt(visited, Head(pending), TRUE)
    /\ pending' = enqueue_neighbors(grid, Head(pending), Tail(pending))
    /\ level_left' = level_left - 1
    /\ UNCHANGED <<grid, source, target, dist, pcG, resultG>>
    /\ UNCHANGED <<vars23, vars14, vars20, vars11, vars21, vars15, varsP, vars10, vars19,
                 vars19a, vars5>>

\* the for loop is through: dist += 1
LevelEnd ==
    /\ pcG = "for" /\ level_left = 0
    /\ dist' = dist + 1
    /\ pcG' = "while"
    /\ UNCHANGED <<grid, source, target, visited, pending, level_left, resultG>>
    /\ UNCHANGED <<vars23, vars14, vars20, vars11, vars21, vars15, varsP, vars10, vars19,
                 vars19a, vars5>>

NextG == LevelStart \/ ReturnNone \/ PopVisited \/ PopTarget \/ PopExpand \/ LevelEnd

SpecGrid == InitG /\ [][NextG]_vars

\* reference: one up/down/left/right step onto a passable tile
StepsFrom(g, pos) ==
    {q \in CellsOf(g) :
        /\ is_passable(At(g, q))
        /\ \/ (q[1] = pos[1] /\ (q[2] = pos[2] + 1 \/ q[2] + 1 = pos[2]))
           \/ (q[2] = pos[2] /\ (q[1] = pos[1] + 1 \/ q[1] + 1 = pos[1]))}

\* the positions some path of exactly d steps from the source ends on
RECURSIVE EndsOfPaths(_, _, _)
EndsOfPaths(g, src, d) ==
    IF d = 0 THEN {src}
    ELSE UNION {StepsFrom(g, pos) : pos \in EndsOfPaths(g, src, d - 1)}

\* Some(d) of the least d for which a path of d steps ends on the target,
\* None when no path of up to rows * cols steps does
MinSteps(g, src, tgt) ==
    LET ds == {d \in 0..(g.rows * g.cols) : tgt \in EndsOfPaths(g, src, d)}
    IN IF ds = {} THEN <<>> ELSE << CHOOSE d \in ds : \A e \in ds : d <= e >>

\* C7: shortest_path(source, target) returns Some(d) for the minimum number d
\* of up/down/left/right steps of a path from source to target whose tiles
\* after the source are passable (0 when source = target), and None exactly
\* when there is no such path.
C7_ShortestPathIsMinimum ==
    pcG = "done" => resultG = MinSteps(grid, source, target)

\* a search that had to go around a wall: the path found is longer than the
\* distance between the two positions on an empty grid
C7_WitnessDetour ==
    /\ pcG = "done" /\ resultG # <<>>
    /\ (IF source[1] >= target[1] THEN source[1] - target[1] ELSE target[1] - source[1])
       + (IF source[2] >= target[2] THEN source[2] - target[2] ELSE target[2] - source[2])
       < resultG[1]

(***************************************************************************)
(* utils.rs: permute                                                       *)
(***************************************************************************)

\* slices of at most MaxItems distinct items
MaxItems == 4

\* a call of `inner` in progress: its `index`, the `swap_with` of its for loop
\* and whether the recursive call of the current turn has returned
Frame(index, swap_with, returned) ==
    [index |-> index, swap_with |-> swap_with, returned |-> returned]

\* the first items.swap(index, swap_with) of a turn of the for loop
SwapIn(s, index, swap_with) == swap(s, index, swap_with)

SwapBackOmitted(s, index, swap_with) == s
\* the second items.swap(index, swap_with), after the recursive call
SwapBack(s, index, swap_with) == swap(s, index, swap_with)

\* the slices day 24 and any other caller may hand over: distinct items in
\* any order
Slices ==
    UNION { {s \in [1..n -> 1..MaxItems] : \A i, j \in 1..n : i # j => s[i] # s[j]}
            : n \in 0..MaxItems }

\* permute(items, callback): inner(items, 0, callback)
InitP ==
    /\ originalP \in Slices
    /\ itemsP = originalP
    /\ stackP = << Frame(0, 0, FALSE) >>
    /\ callsP = <<>>
    /\ pcP = "run"
    /\ Idle23 /\ Idle14 /\ Idle20 /\ Idle11 /\ Idle21 /\ Idle15 /\ IdleG
    /\ Idle10 /\ Idle19 /\ Idle19a /\ Idle5

TopP == stackP[Len(stackP)]
PopP == SubSeq(stackP, 1, Len(stackP) - 1)

\* if index == items.len() { callback(items); return; }
InnerCallback ==
    /\ pcP = "run" /\ stackP # <<>>
    /\ TopP.index = Len(itemsP)
    /\ callsP' = Append(callsP, itemsP)
    /\ stackP' = PopP
    /\ UNCHANGED <<originalP, itemsP, pcP>>
    /\ UNCHANGED <<vars23, vars14, vars20, vars11, vars21, vars15, varsG, vars10, vars19,
                 vars19a, vars5>>

\* a turn of the for loop up to the call: items.swap(index, swap_with);
\* inner(items, index + 1, callback)
InnerRecurse ==
    /\ pcP = "run" /\ stackP # <<>>
    /\ TopP.index # Len(itemsP)
    /\ ~TopP.returned
    /\ TopP.swap_with < Len(itemsP)
    /\ itemsP' = SwapIn(itemsP, TopP.index, TopP.swap_with)
    /\ stackP' = Append([stackP EXCEPT ![Len(stackP)].returned = TRUE],
                        Frame(TopP.index + 1, TopP.index + 1, FALSE))
    /\ UNCHANGED <<originalP, callsP, pcP>>
    /\ UNCHANGED <<vars23, vars14, vars20, vars11, vars21, vars15, varsG, vars10, vars19,
                 vars19a, vars5>>

\* the rest of the turn, after the call returned: items.swap(index, swap_with)
InnerRestore ==
    /\ pcP = "run" /\ stackP # <<>>
    /\ TopP.returned
    /\ itemsP' = SwapBack(itemsP, TopP.index, TopP.swap_with)
    /\ stackP' = [stackP EXCEPT ![Len(stackP)] =
                      Frame(TopP.index, TopP.swap_with + 1, FALSE)]
    /\ UNCHANGED <<originalP, callsP, pcP>>
    /\ UNCHANGED <<vars23, vars14, vars20, vars11, vars21, vars15, varsG, vars10, vars19,
                 vars19a, vars5>>

\* the for loop of inner is over: inner returns
InnerReturn ==
    /\ pcP = "run" /\ stackP # <<>>
    /\ TopP.index # Len(itemsP)
    /\ ~TopP.returned
    /\ TopP.swap_with >= Len(itemsP)
    /\ stackP' = PopP
    /\ UNCHANGED <<originalP, itemsP, callsP, pcP>>
    /\ UNCHANGED <<vars23, vars14, vars20, vars11, vars21, vars15, varsG, vars10, vars19,
                 vars19a, vars5>>

\* inner(items, 0, callback) returned: permute returns
PermuteReturn ==
    /\ pcP = "run" /\ stackP = <<>>
    /\ pcP' = "done"
    /\ UNCHANGED <<originalP, itemsP, stackP, callsP>>
    /\ UNCHANGED <<vars23, vars14, vars20, vars11, vars21, vars15, varsG, vars10, vars19,
                 vars19a, vars5>>

NextP ==
    \/ InnerCallback
    \/ InnerRecurse
    \/ InnerRestore
    \/ InnerReturn
    \/ PermuteReturn

SpecPermute == InitP /\ [][NextP]_vars

\* every arrangement of the items of s
Arrangements(s) ==
    { [k \in 1..Len(s) |-> s[p[k]]] :
        p \in {q \in [1..Len(s) -> 1..Len(s)] :
                  \A i, j \in 1..Len(s) : i # j => q[i] # q[j]} }

\* C8: when permute returns on a slice of n distinct items, the callback has
\* been called exactly n! times, the slices it was called with are the
\* permutations of the items, each one once, and the slice is back in the
\* order it was handed over in.
C8_PermuteCallsEveryPermutationOnce ==
    pcP = "done" =>
        /\ Len(callsP) = Factorial(Len(originalP))
        /\ {callsP[k] : k \in 1..Len(callsP)} = Arrangements(originalP)
        /\ \A i, j \in 1..Len(callsP) : i # j => callsP[i] # callsP[j]
        /\ itemsP = originalP

\* permute has returned on a slice of at least three items that was not in
\* ascending order, after at least six callbacks
C8_Witness ==
    /\ pcP = "done"
    /\ Len(originalP) >= 3
    /\ originalP[1] > originalP[2]
    /\ Len(callsP) >= 6

(***************************************************************************)
(* Day 10: the factory of bots                                             *)
(***************************************************************************)

\* instruction lists carry at most MaxSeeds10 `value .. goes to ..` lines
MaxSeeds10 == 3

\* enum Destination
DestBot(ix) == [kind |-> "bot", ix |-> ix]
DestOutput(ix) == [kind |-> "output", ix |-> ix]

\* enum Instruction: Seed(Seed {value, value_to}) and Bot(Bot {id, low_to, high_to})
SeedInstr(value, value_to) == [op |-> "seed", value |-> value, value_to |-> value_to]
BotInstr(id, low_to, high_to) ==
    [op |-> "bot", id |-> id, low_to |-> low_to, high_to |-> high_to]

\* enum TwoHeap: Empty, Single(x), Pair(x, y)
Empty == <<>>
Single(x) == <<x>>
Pair(x, y) == <<x, y>>

PushUnordered(x, value) == Pair(x, value)
\* the two arms of push for Single(x)
PushOntoSingle(x, value) == IF x <= value THEN Pair(x, value) ELSE Pair(value, x)

\* TwoHeap::push: the heap afterwards and whether it returned Ok
push(heap, value) ==
    IF heap = Empty THEN [ok |-> TRUE, heap |-> Single(value)]
    ELSE IF Len(heap) = 1 THEN [ok |-> TRUE, heap |-> PushOntoSingle(heap[1], value)]
    ELSE [ok |-> FALSE, heap |-> heap]

is_full(heap) == Len(heap) = 2

\* count_bots_and_outputs
DestsOf(instr) ==
    IF instr.op = "seed" THEN {instr.value_to} ELSE {instr.low_to, instr.high_to}
LargestOf(S) == CHOOSE x \in S : \A y \in S : y <= x
num_bots(instrs) ==
    LargestOf({0}
        \cup {instrs[k].id + 1 : k \in {n \in 1..Len(instrs) : instrs[n].op = "bot"}}
        \cup UNION {{d.ix + 1 : d \in {e \in DestsOf(instrs[k]) : e.kind = "bot"}}
                    : k \in 1..Len(instrs)})
num_outputs(instrs) ==
    LargestOf({0}
        \cup UNION {{d.ix + 1 : d \in {e \in DestsOf(instrs[k]) : e.kind = "output"}}
                    : k \in 1..Len(instrs)})

\* the lines of the enumerated inputs: two bots, one output bin, chips 1 and 2
BotIds10 == {0, 1}
Destinations10 == {DestBot(0), DestBot(1), DestOutput(0)}
Seeds10 == {SeedInstr(v, d) : v \in {1, 2}, d \in Destinations10}

\* the `bot ..` lines of the bots from id on that def gives a line to
RECURSIVE BotLines10(_, _)
BotLines10(def, id) ==
    IF id \notin BotIds10 THEN <<>>
    ELSE (IF def[id] = <<>> THEN <<>>
          ELSE << BotInstr(id, def[id][1], def[id][2]) >>)
         \o BotLines10(def, id + 1)

\* EXAMPLE of the tests
Example10 ==
    << SeedInstr(5, DestBot(2)),
       BotInstr(2, DestBot(1), DestBot(0)),
       SeedInstr(3, DestBot(1)),
       BotInstr(1, DestOutput(1), DestBot(0)),
       BotInstr(0, DestOutput(2), DestOutput(0)),
       SeedInstr(2, DestBot(2)) >>

\* at most one line for each bot (new only touches `bots` for a bot line and
\* only the heaps for a seed line, so the bot lines are put first), then up
\* to MaxSeeds10 seed lines in any order; and the example
InstructionLists10 ==
    { BotLines10(def, 0) \o seeds :
        def \in [BotIds10 -> {<<>>} \cup (Destinations10 \X Destinations10)],
        seeds \in UNION {[1..n -> Seeds10] : n \in 0..MaxSeeds10} }
    \cup {Example10}

\* Factory::new up to the for loop
Init10 ==
    /\ instructions10 \in InstructionLists10
    /\ next_instr10 = 1
    /\ bot_inventory = [k \in 1..num_bots(instructions10) |-> Empty]
    /\ bots = [k \in 1..num_bots(instructions10) |-> <<>>]
    /\ outputs = [k \in 1..num_outputs(instructions10) |-> Empty]
    /\ events = <<>>
    /\ received10 = [k \in 1..num_bots(instructions10) |-> <<>>]
    /\ delivered10 = [k \in 1..num_outputs(instructions10) |-> <<>>]
    /\ sent10 = <<>>
    /\ pc10 = "new"
    /\ Idle23 /\ Idle14 /\ Idle20 /\ Idle11 /\ Idle21 /\ Idle15 /\ IdleG
    /\ IdleP /\ Idle19 /\ Idle19a /\ Idle5

\* the heaps and the queue of a Factory with the histories kept beside them
FactoryNow ==
    [bot_inventory |-> bot_inventory, outputs |-> outputs, events |-> events,
     received |-> received10, delivered |-> delivered10, ok |-> TRUE]

\* Factory::send_value; `ok` is FALSE when push returned HeapFull, and then
\* nothing has changed
send_value(f, dest, value) ==
    IF dest.kind = "bot"
    THEN LET r == push(f.bot_inventory[dest.ix + 1], value)
         IN IF ~r.ok THEN [f EXCEPT !.ok = FALSE]
            ELSE [f EXCEPT !.bot_inventory[dest.ix + 1] = r.heap,
                           !.received[dest.ix + 1] = Append(@, value),
                           !.events = IF is_full(r.heap) THEN Append(@, dest.ix) ELSE @]
    ELSE LET r == push(f.outputs[dest.ix + 1], value)
         IN IF ~r.ok THEN [f EXCEPT !.ok = FALSE]
            ELSE [f EXCEPT !.outputs[dest.ix + 1] = r.heap,
                           !.delivered[dest.ix + 1] = Append(@, value)]

\* new, Instruction::Seed: push onto the bot or the output, `?` on HeapFull
NewSeed ==
    /\ pc10 = "new" /\ next_instr10 <= Len(instructions10)
    /\ instructions10[next_instr10].op = "seed"
    /\ LET seed == instructions10[next_instr10]
           \* the same push as send_value's, without the events
           f == [send_value(FactoryNow, seed.value_to, seed.value) EXCEPT !.events = events]
       IN /\ bot_inventory' = f.bot_inventory
          /\ outputs' = f.outputs
          /\ received10' = f.received
          /\ delivered10' = f.delivered
          /\ pc10' = IF f.ok THEN "new" ELSE "failed"
          /\ next_instr10' = IF f.ok THEN next_instr10 + 1 ELSE next_instr10
    /\ UNCHANGED <<instructions10, bots, events, sent10>>
    /\ UNCHANGED <<vars23, vars14, vars20, vars11, vars21, vars15, varsG, varsP, vars19,
                 vars19a, vars5>>

\* new, Instruction::Bot: bots[bot.id] = Some(bot)
NewBot ==
    /\ pc10 = "new" /\ next_instr10 <= Len(instructions10)
    /\ instructions10[next_instr10].op = "bot"
    /\ bots' = [bots EXCEPT ![instructions10[next_instr10].id + 1] =
                    << instructions10[next_instr10] >>]
    /\ next_instr10' = next_instr10 + 1
    /\ UNCHANGED <<instructions10, bot_inventory, outputs, events, received10,
                   delivered10, sent10, pc10>>
    /\ UNCHANGED <<vars23, vars14, vars20, vars11, vars21, vars15, varsG, varsP, vars19,
                 vars19a, vars5>>

\* new returns Ok(Self {.., events: VecDeque::new()})
NewReturn ==
    /\ pc10 = "new" /\ next_instr10 > Len(instructions10)
    /\ events' = <<>>
    /\ pc10' = "simulate"
    /\ UNCHANGED <<instructions10, next_instr10, bot_inventory, bots, outputs,
                   received10, delivered10, sent10>>
    /\ UNCHANGED <<vars23, vars14, vars20, vars11, vars21, vars15, varsG, varsP, vars19,
                 vars19a, vars5>>

\* the indexes from ix on of the bots whose inventory is a Pair, ascending
RECURSIVE FullBotsFrom(_, _)
FullBotsFrom(inventory, ix) ==
    IF ix >= Len(inventory) THEN <<>>
    ELSE (IF is_full(inventory[ix + 1]) THEN <<ix>> ELSE <<>>)
         \o FullBotsFrom(inventory, ix + 1)

\* simulate: events.clear() and the for loop that queues every full bot
SimulateStart ==
    /\ pc10 = "simulate"
    /\ events' = FullBotsFrom(bot_inventory, 0)
    /\ pc10' = "loop"
    /\ UNCHANGED <<instructions10, next_instr10, bot_inventory, bots, outputs,
                   received10, delivered10, sent10>>
    /\ UNCHANGED <<vars23, vars14, vars20, vars11, vars21, vars15, varsG, varsP, vars19,
                 vars19a, vars5>>

\* a send_value call of simulate that returned Ok
Sent(bot_ix, slot, dest, value) ==
    [bot |-> bot_ix, slot |-> slot, dest |-> dest, value |-> value]

\* one turn of `while let Some(bot_ix) = self.events.pop_front()`
SimulateTurn ==
    /\ pc10 = "loop" /\ events # <<>>
    /\ LET bot_ix == Head(events)
           inv == bot_inventory[bot_ix + 1]
           popped == [FactoryNow EXCEPT !.events = Tail(events)]
       IN IF ~is_full(inv)
          THEN \* return Err(FactoryError::UnpreparedBot)
               /\ events' = popped.events /\ pc10' = "failed"
               /\ UNCHANGED <<bot_inventory, outputs, received10, delivered10, sent10>>
          ELSE IF bots[bot_ix + 1] = <<>>
          THEN \* self.bots[bot_ix].unwrap() on None
               /\ events' = popped.events /\ pc10' = "panicked"
               /\ UNCHANGED <<bot_inventory, outputs, received10, delivered10, sent10>>
          ELSE LET bot == bots[bot_ix + 1][1]
                   low == send_value(popped, bot.low_to, inv[1])
                   high == send_value(low, bot.high_to, inv[2])
                   f == IF low.ok THEN high ELSE low
               IN /\ bot_inventory' = f.bot_inventory
                  /\ outputs' = f.outputs
                  /\ events' = f.events
                  /\ received10' = f.received
                  /\ delivered10' = f.delivered
                  /\ sent10' = sent10
                        \o (IF low.ok THEN << Sent(bot_ix, "low", bot.low_to, inv[1]) >>
                            ELSE <<>>)
                        \o (IF low.ok /\ high.ok
                            THEN << Sent(bot_ix, "high", bot.high_to, inv[2]) >>
                            ELSE <<>>)
                  /\ pc10' = IF f.ok THEN "loop" ELSE "failed"
    /\ UNCHANGED <<instructions10, next_instr10, bots>>
    /\ UNCHANGED <<vars23, vars14, vars20, vars11, vars21, vars15, varsG, varsP, vars19,
                 vars19a, vars5>>

\* the queue is empty: simulate returns Ok(())
SimulateReturn ==
    /\ pc10 = "loop" /\ events = <<>>
    /\ pc10' = "done"
    /\ UNCHANGED <<instructions10, next_instr10, bot_inventory, bots, outputs,
                   events, received10, delivered10, sent10>>
    /\ UNCHANGED <<vars23, vars14, vars20, vars11, vars21, vars15, varsG, varsP, vars19,
                 vars19a, vars5>>

Next10 ==
    \/ NewSeed
    \/ NewBot
    \/ NewReturn
    \/ SimulateStart
    \/ SimulateTurn
    \/ SimulateReturn

SpecDay10 == Init10 /\ [][Next10]_vars

\* the sends of bot_ix that simulate has made from its low or high slot
SendsOf(bot_ix, slot) ==
    {n \in 1..Len(sent10) : sent10[n].bot = bot_ix /\ sent10[n].slot = slot}

\* C9: when new and simulate have both returned Ok, every bot that received
\* two chips, a <= b, has sent exactly once from each slot, a to its low_to
\* and b to its high_to, and its inventory still is Pair(a, b); and every
\* output that received exactly one chip is Single of that chip.
C9_FullBotsSentLowAndHighOnce ==
    pc10 = "done" =>
        /\ \A k \in 1..Len(bot_inventory) :
              Len(received10[k]) = 2 =>
                  LET a == Min(received10[k][1], received10[k][2])
                      b == Max(received10[k][1], received10[k][2])
                  IN /\ bots[k] # <<>>
                     /\ Cardinality(SendsOf(k - 1, "low")) = 1
                     /\ Cardinality(SendsOf(k - 1, "high")) = 1
                     /\ \A n \in SendsOf(k - 1, "low") :
                            sent10[n].dest = bots[k][1].low_to /\ sent10[n].value = a
                     /\ \A n \in SendsOf(k - 1, "high") :
                            sent10[n].dest = bots[k][1].high_to /\ sent10[n].value = b
                     /\ bot_inventory[k] = Pair(a, b)
        /\ \A o \in 1..Len(outputs) :
              Len(delivered10[o]) = 1 => outputs[o] = Single(delivered10[o][1])

\* both returned Ok after a bot received its higher chip first, two bots or
\* more held two chips, and an output received exactly one chip
C9_Witness ==
    /\ pc10 = "done"
    /\ \E k \in 1..Len(bot_inventory) :
          Len(received10[k]) = 2 /\ received10[k][1] > received10[k][2]
    /\ Cardinality({k \in 1..Len(bot_inventory) : Len(received10[k]) = 2}) >= 2
    /\ \E o \in 1..Len(outputs) : Len(delivered10[o]) = 1

(***************************************************************************)
(* Day 19: the elves in a circle, part 2                                   *)
(***************************************************************************)

\* circles of at most MaxElves elves
MaxElves == 100

\* the while loop of part_2_josephus; checked_mul(3) is never None for the
\* counts enumerated here
RECURSIVE HighestPowerOf3(_, _)
HighestPowerOf3(count, highest_power_of_3) ==
    IF highest_power_of_3 * 3 < count
    THEN HighestPowerOf3(count, highest_power_of_3 * 3)
    ELSE highest_power_of_3

PlainSub(a, b) == a - b
\* u64::saturating_sub
saturating_sub(a, b) == IF a >= b THEN a - b ELSE 0

part_2_josephus(count) ==
    LET highest_power_of_3 == HighestPowerOf3(count, 1)
    IN saturating_sub(count, highest_power_of_3)
       + saturating_sub(count, 2 * highest_power_of_3)

\* part_2_deques up to the while loop: ahead = 1..=count, then
\* behind = ahead.split_off(ahead.len() / 2)
Init19 ==
    /\ count19 \in 1..MaxElves
    /\ ahead = [k \in 1..(count19 \div 2) |-> k]
    /\ behind = [k \in 1..(count19 - count19 \div 2) |-> count19 \div 2 + k]
    /\ pc19 = "loop"
    /\ result19 = 0
    /\ Idle23 /\ Idle14 /\ Idle20 /\ Idle11 /\ Idle21 /\ Idle15 /\ IdleG
    /\ IdleP /\ Idle10 /\ Idle19a /\ Idle5

\* one turn of `while let Some(first) = ahead.pop_front()`
DequesTurn ==
    /\ pc19 = "loop" /\ ahead # <<>>
    /\ LET first == Head(ahead)
           ahead1 == Tail(ahead)
       IN IF behind = <<>>
          THEN \* return first
               /\ ahead' = ahead1 /\ behind' = behind
               /\ result19' = first /\ pc19' = "done"
          ELSE LET behind1 == Append(Tail(behind), first)
               IN /\ IF Len(ahead1) + 1 < Len(behind1) /\ behind1 # <<>>
                     THEN /\ ahead' = Append(ahead1, Head(behind1))
                          /\ behind' = Tail(behind1)
                     ELSE /\ ahead' = ahead1
                          /\ behind' = behind1
                  /\ UNCHANGED <<result19, pc19>>
    /\ UNCHANGED count19
    /\ UNCHANGED <<vars23, vars14, vars20, vars11, vars21, vars15, varsG, varsP, vars10,
                 vars19a, vars5>>

\* ahead is empty: behind.pop_front().unwrap_or(0)
DequesReturn ==
    /\ pc19 = "loop" /\ ahead = <<>>
    /\ result19' = IF behind = <<>> THEN 0 ELSE Head(behind)
    /\ behind' = IF behind = <<>> THEN behind ELSE Tail(behind)
    /\ pc19' = "done"
    /\ UNCHANGED <<count19, ahead>>
    /\ UNCHANGED <<vars23, vars14, vars20, vars11, vars21, vars15, varsG, varsP, vars10,
                 vars19a, vars5>>

Next19 ==
    \/ DequesTurn
    \/ DequesReturn

SpecDay19 == Init19 /\ [][Next19]_vars

\* C10: for every count of at least 2, the winner part_2_deques returns is
\* the value of part_2_josephus for that count.
C10_JosephusEqualsDeques ==
    (pc19 = "done" /\ count19 >= 2) => result19 = part_2_josephus(count19)

\* part_2_deques has returned for a count above twice the highest power of
\* three below it, where both terms of the closed form are positive
C10_Witness ==
    /\ pc19 = "done"
    /\ count19 > 2 * HighestPowerOf3(count19, 1)
    /\ HighestPowerOf3(count19, 1) >= 9
    /\ result19 = part_2_josephus(count19)

(***************************************************************************)
(* Day 19: the elves in a circle, part 1                                   *)
(***************************************************************************)

\* u64::leading_zeros, through the number of bits count takes
RECURSIVE BitLength(_)
BitLength(n) == IF n = 0 THEN 0 ELSE 1 + BitLength(n \div 2)
leading_zeros(n) == 64 - BitLength(n)

\* let highest_one = 1 << (63 - count.leading_zeros())
highest_one(count) == 2 ^ (63 - leading_zeros(count))

TwiceTheRest(count, highest) == (count - highest) * 2
\* (count - highest_one) * 2 + 1
TwiceTheRestPlusOne(count, highest) == (count - highest) * 2 + 1

part_1_jospehus(count) == TwiceTheRestPlusOne(count, highest_one(count))

\* part_1_deques up to the while loop: queue = 1..=count
Init19a ==
    /\ count19a \in 1..MaxElves
    /\ queue19a = [k \in 1..count19a |-> k]
    /\ pc19a = "loop"
    /\ result19a = 0
    /\ Idle23 /\ Idle14 /\ Idle20 /\ Idle11 /\ Idle21 /\ Idle15 /\ IdleG
    /\ IdleP /\ Idle10 /\ Idle19 /\ Idle5

\* a turn of `while let Some(first) = queue.pop_front()` with a second elf
\* in the queue: the second is dropped, the first goes to the back
Part1DequesTurn ==
    /\ pc19a = "loop" /\ Len(queue19a) >= 2
    /\ queue19a' = Append(Tail(Tail(queue19a)), Head(queue19a))
    /\ UNCHANGED <<count19a, pc19a, result19a>>
    /\ UNCHANGED <<vars23, vars14, vars20, vars11, vars21, vars15, varsG, varsP, vars10,
                   vars19, vars5>>

\* the turn in which queue.pop_front() finds no second elf: return first
Part1DequesReturn ==
    /\ pc19a = "loop" /\ Len(queue19a) = 1
    /\ queue19a' = Tail(queue19a)
    /\ result19a' = Head(queue19a)
    /\ pc19a' = "done"
    /\ UNCHANGED count19a
    /\ UNCHANGED <<vars23, vars14, vars20, vars11, vars21, vars15, varsG, varsP, vars10,
                   vars19, vars5>>

Next19a ==
    \/ Part1DequesTurn
    \/ Part1DequesReturn

SpecDay19Part1 == Init19a /\ [][Next19a]_vars

\* C11: for every count of at least 1, the elf part_1_deques is left with is
\* the value of part_1_jospehus, twice the excess of the count over the
\* highest power of two not above it, plus one.
C11_JosephusEqualsDeques ==
    pc19a = "done" => result19a = part_1_jospehus(count19a)

\* part_1_deques has returned for a count that is not a power of two and is
\* above 16, with an elf other than the first left
C11_Witness ==
    /\ pc19a = "done"
    /\ count19a > 16
    /\ highest_one(count19a) # count19a
    /\ result19a = part_1_jospehus(count19a)
    /\ result19a > 1

(***************************************************************************)
(* Day 5: part 2, the password filled in by position                       *)
(***************************************************************************)

\* the code starts with a window of 0x10000 indices and fills 8 positions;
\* the model starts with FirstWindow5 indices, fills NumPositions5 positions
\* and knows the hashes of the indices 1..MaxIndex5
FirstWindow5 == 2
NumPositions5 == 2
MaxIndex5 == 6

\* const HEX: b"0123456789abcdef"
HEX == <<48, 49, 50, 51, 52, 53, 54, 55, 56, 57, 97, 98, 99, 100, 101, 102>>

\* the first four bytes an index may hash to: not two zero bytes, or two zero
\* bytes, a position byte (NumPositions5 is the first one that is too high)
\* and a byte whose high nibble tells the index
HashOf(x, pos) ==
    IF pos > NumPositions5 THEN <<1, 0, 0, 0>> ELSE <<0, 0, pos, Byte(x % 16, 5)>>

\* the closure of map_init: Some((pos, HEX[ch >> 4])) as <<(pos, char)>>,
\* None as <<>>
MapIndex(hash, mask) ==
    IF hash[1] = 0 /\ hash[2] = 0 /\ hash[3] < NumPositions5 /\ hash[3] \notin mask
    THEN << <<hash[3], HEX[(hash[4] \div 16) + 1]>> >>
    ELSE <<>>

\* flatten_iter over the mapped indices, in the order given
RECURSIVE FlattenMapped(_, _, _)
FlattenMapped(hashes, mask, indices) ==
    IF indices = <<>> THEN <<>>
    ELSE MapIndex(hashes[Head(indices)], mask) \o FlattenMapped(hashes, mask, Tail(indices))

CollectAsFinished(start, size, finished) == finished
\* the order par_extend puts the items of the range in the Vec: the order of
\* the range, whatever order the workers finished in
CollectInOrder(start, size, finished) == [k \in 1..size |-> start + k - 1]

\* for &(pos, ch) in &events { if mask & bit == 0 { mask |= bit; res[pos] = ch } }
RECURSIVE ApplyEvents(_, _, _)
ApplyEvents(evs, mask, res) ==
    IF evs = <<>> THEN [mask |-> mask, res |-> res]
    ELSE IF Head(evs)[1] \notin mask
         THEN ApplyEvents(Tail(evs), mask \cup {Head(evs)[1]},
                          [res EXCEPT ![Head(evs)[1] + 1] = Head(evs)[2]])
         ELSE ApplyEvents(Tail(evs), mask, res)

\* mask == 0xFF
MaskFull(mask) == mask = 0..(NumPositions5 - 1)

\* part_2 up to the while loop
Init5 ==
    /\ hashes5 \in {[x \in 1..MaxIndex5 |-> HashOf(x, pos[x])] :
                       pos \in [1..MaxIndex5 -> 0..(NumPositions5 + 1)]}
    /\ res5 = [k \in 1..NumPositions5 |-> 0]
    /\ mask5 = {}
    /\ start5 = 1
    /\ window_size5 = FirstWindow5
    /\ finished5 = <<>>
    /\ events5 = <<>>
    /\ pc5 = IF FirstWindow5 <= MaxIndex5 THEN "par" ELSE "cut"
    /\ result5 = <<>>
    /\ Idle23 /\ Idle14 /\ Idle20 /\ Idle11 /\ Idle21 /\ Idle15 /\ IdleG
    /\ IdleP /\ Idle10 /\ Idle19 /\ Idle19a

\* a worker evaluates one index of the window that no worker has taken yet
WorkerFinish ==
    /\ pc5 = "par"
    /\ \E x \in start5..(start5 + window_size5 - 1) :
          /\ \A k \in 1..Len(finished5) : finished5[k] # x
          /\ finished5' = Append(finished5, x)
    /\ UNCHANGED <<hashes5, res5, mask5, start5, window_size5, events5, pc5, result5>>
    /\ UNCHANGED <<vars23, vars14, vars20, vars11, vars21, vars15, varsG, varsP, vars10,
                   vars19, vars19a>>

\* every index of the window has been evaluated: events.par_extend returns
ParExtendReturn ==
    /\ pc5 = "par" /\ Len(finished5) = window_size5
    /\ events5' = events5
          \o FlattenMapped(hashes5, mask5, CollectInOrder(start5, window_size5, finished5))
    /\ pc5' = "for"
    /\ UNCHANGED <<hashes5, res5, mask5, start5, window_size5, finished5, result5>>
    /\ UNCHANGED <<vars23, vars14, vars20, vars11, vars21, vars15, varsG, varsP, vars10,
                   vars19, vars19a>>

\* the rest of the turn of the while loop: the for loop over events,
\* events.clear(), start += window_size, window_size *= 2, and the test of
\* the while loop ("cut" when the next window passes MaxIndex5)
WindowEnd ==
    /\ pc5 = "for"
    /\ LET after == ApplyEvents(events5, mask5, res5)
       IN /\ mask5' = after.mask
          /\ res5' = after.res
          /\ pc5' = IF MaskFull(after.mask) THEN "return"
                    ELSE IF start5 + 3 * window_size5 - 1 > MaxIndex5 THEN "cut"
                    ELSE "par"
          /\ finished5' = IF MaskFull(after.mask) THEN finished5 ELSE <<>>
    /\ events5' = <<>>
    /\ start5' = start5 + window_size5
    /\ window_size5' = window_size5 * 2
    /\ UNCHANGED <<hashes5, result5>>
    /\ UNCHANGED <<vars23, vars14, vars20, vars11, vars21, vars15, varsG, varsP, vars10,
                   vars19, vars19a>>

\* str::from_utf8(&res).unwrap().to_string()
Part2Return ==
    /\ pc5 = "return"
    /\ result5' = res5
    /\ pc5' = "done"
    /\ UNCHANGED <<hashes5, res5, mask5, start5, window_size5, finished5, events5>>
    /\ UNCHANGED <<vars23, vars14, vars20, vars11, vars21, vars15, varsG, varsP, vars10,
                   vars19, vars19a>>

Next5 ==
    \/ WorkerFinish
    \/ ParExtendReturn
    \/ WindowEnd
    \/ Part2Return

SpecDay5 == Init5 /\ [][Next5]_vars

\* the indices whose hash is a hit for position pos
HitsFor(pos) ==
    {x \in 1..MaxIndex5 : hashes5[x][1] = 0 /\ hashes5[x][2] = 0 /\ hashes5[x][3] = pos}
LowestHit(pos) == CHOOSE x \in HitsFor(pos) : \A y \in HitsFor(pos) : x <= y

\* C12: whatever order the workers evaluated the indices of each window in,
\* every position of the password part_2 returns holds the character of the
\* lowest index whose hash is a hit for that position, as a scan of the
\* indices 1, 2, 3, ... in order assigns it.
C12_PasswordIsOfLowestHits ==
    pc5 = "done" =>
        \A pos \in 0..(NumPositions5 - 1) :
            /\ HitsFor(pos) # {}
            /\ result5[pos + 1] = HEX[(hashes5[LowestHit(pos)][4] \div 16) + 1]

\* part_2 has returned after a second window in which a worker finished a
\* higher hit for a position before another finished the lowest hit for it
C12_Witness ==
    /\ pc5 = "done"
    /\ start5 > 1 + 3 * FirstWindow5 - 1
    /\ \E i, j \in 1..Len(finished5) :
          /\ i < j /\ finished5[i] > finished5[j]
          /\ \E pos \in 0..(NumPositions5 - 1) :
                /\ finished5[i] \in HitsFor(pos)
                /\ finished5[j] = LowestHit(pos)

====
